---- MODULE Spec2Model ----
(***************************************************************************)
(* Model of the pyavd-cli build pipeline (src/pyavd_cli/build.py).         *)
(*                                                                         *)
(* main() selects the target hosts and calls build(); build() owns one     *)
(* ProcessPoolExecutor and runs, on the coordinating thread,               *)
(*   validate_all_inputs -> generate_avd_facts ->                          *)
(*   build_and_write_all_device_configs.                                   *)
(* Both parallel stages use executor.map(fn, keys, values, chunksize=k):   *)
(* the zipped arguments are cut in chunks of k, every chunk is submitted   *)
(* as one future before map() returns, a worker runs fn over the items of  *)
(* a chunk one after the other (an exception ends the chunk), and the      *)
(* coordinator reads the futures' results in submission order; when a      *)
(* result raises, the futures still pending are cancelled and the          *)
(* exception leaves the with-block, whose exit waits for the futures that  *)
(* were already handed to the workers.                                     *)
(*                                                                         *)
(* A dict is a sequence of <<key, value>> pairs with distinct keys, in     *)
(* insertion order.  Hosts are numbered in inventory order.                *)
(***************************************************************************)
EXTENDS Integers, Sequences, FiniteSets, TLC

\* Largest inventory explored.
MaxHosts == 3
\* Largest --max-workers explored.
MaxWorkers == 2
\* chunksize of the map in validate_all_inputs.  The source passes 16; the
\* model keeps the chunking and scales the size so that an inventory of
\* MaxHosts hosts spans more than one chunk.
ValidateChunkSize == 2
\* chunksize of the map in build_and_write_all_device_configs (8 in the
\* source), scaled the same way.
BuildChunkSize == 2
\* concurrent.futures.process.EXTRA_QUEUED_CALLS: the call queue of a
\* ProcessPoolExecutor holds max_workers + 1 work items.
EXTRA_QUEUED_CALLS == 1

InventoryHosts == 1..MaxHosts

VARIABLES
    pc,                         \* position of the coordinating thread
    fabric_hostvars,            \* dict hostname -> hostvars of the fabric group
    target_hosts,               \* hosts matched by the --limit pattern
    strict,                     \* --strict
    max_workers,                \* --max-workers
    avd_facts_path,             \* TRUE iff --avd-facts-path was given
    executor,                   \* "none", "open" or "shutdown"
    pool_acquired,              \* number of ProcessPoolExecutor objects created
    fn,                         \* function mapped by the current executor.map
    fs,                         \* futures of the current executor.map, one per chunk
    next_result,                \* index of the next future result_iterator reads
    results,                    \* values the result iterator has yielded so far
    validated_fabric_hostvars,  \* dict returned by validate_all_inputs
    avd_facts,                  \* value returned by generate_avd_facts
    facts_calls,                \* number of calls of get_avd_facts
    facts_arg,                  \* argument of the last call of get_avd_facts
    facts_written,              \* the facts artifact exists
    validate_calls,             \* hostname -> hostvars passed to validate_inputs, per call
    input_failed,               \* hosts whose validate_inputs result was failed
    build_calls,                \* hostname -> inputs passed to get_device_structured_config
    build_failed,               \* hosts whose get_device_structured_config raised
    sc_failed,                  \* hosts whose validate_structured_config result was failed
    render_failed,              \* hosts whose get_device_config or configs/<hostname>.cfg write raised
    sc_writes,                  \* hostname -> number of writes of structured_configs/<hostname>.yml
    cfg_writes,                 \* hostname -> number of writes of configs/<hostname>.cfg
    n_processed_hosts,          \* len() of the list returned by the build stage, -1 before
    error,                      \* exception travelling up the coordinating thread
    exit_status,                \* process exit status, -1 while running
    files,                      \* the output directories: set of [path, content]
    outcomes,                   \* results of the pyavd functions seen so far, per argument
    run,                        \* 1 in the first run of the process, 2 in a second run
    first_run_files             \* the output directories as the first run left them

vars == << pc, fabric_hostvars, target_hosts, strict, max_workers, avd_facts_path,
           executor, pool_acquired, fn, fs, next_result, results,
           validated_fabric_hostvars, avd_facts, facts_calls, facts_arg,
           facts_written, validate_calls, input_failed, build_calls, build_failed,
           sc_failed, render_failed, sc_writes, cfg_writes, n_processed_hosts, error,
           exit_status, files, outcomes, run, first_run_files >>

inputs == << fabric_hostvars, target_hosts, strict, max_workers, avd_facts_path >>

pipeline == << validated_fabric_hostvars, avd_facts, facts_calls, facts_arg,
               facts_written, n_processed_hosts >>

unit_logs == << validate_calls, input_failed, build_calls, build_failed, sc_failed,
                render_failed, sc_writes, cfg_writes >>

world == << files, outcomes >>

reruns == << run, first_run_files >>

----------------------------------------------------------------------------
\* dicts and executor.map helpers

\* The variable set VariableManager.get_vars yields for a host: opaque, and
\* distinct for distinct hosts.
Hostvars(hostname) == << "hostvars", hostname >>

keys(d) == [i \in 1..Len(d) |-> d[i][1]]

values(d) == [i \in 1..Len(d) |-> d[i][2]]

KeySet(d) == {d[i][1] : i \in 1..Len(d)}

Range(seq) == {seq[i] : i \in 1..Len(seq)}

Min(a, b) == IF a < b THEN a ELSE b

\* zip(*iterables) of Executor.map / _get_chunks: pairs the i-th key with the
\* i-th value.
zip(ks, vs) == [i \in 1..Min(Len(ks), Len(vs)) |-> << ks[i], vs[i] >>]

\* dict(iterable of pairs): a later pair with a key already present replaces
\* the value and keeps the key's position.
RECURSIVE dict(_)
dict(pairs) ==
    IF pairs = << >> THEN << >>
    ELSE LET front == dict(SubSeq(pairs, 1, Len(pairs) - 1))
             last == pairs[Len(pairs)]
         IN  IF last[1] \in KeySet(front)
             THEN [i \in 1..Len(front) |->
                      IF front[i][1] = last[1] THEN last ELSE front[i]]
             ELSE Append(front, last)

\* Variant of get_chunks: every slice after the first starts one item early, so
\* that it repeats the last item of the slice before it.
get_chunks_overlapping(items, chunksize) ==
    [k \in 1..((Len(items) + chunksize - 1) \div chunksize) |->
        SubSeq(items,
               IF k = 1 THEN 1 ELSE (k - 1) * chunksize,
               Min(Len(items), k * chunksize))]

\* concurrent.futures.process._get_chunks: consecutive slices of chunksize items.
RECURSIVE get_chunks(_, _)
get_chunks(items, chunksize) ==
    IF items = << >> THEN << >>
    ELSE LET n == Min(Len(items), chunksize)
         IN  << SubSeq(items, 1, n) >>
                 \o get_chunks(SubSeq(items, n + 1, Len(items)), chunksize)

\* An exception object: its class and the parts of its message.
Exception(type, message) == [type |-> type, message |-> message]

NoException == Exception("none", << >>)

\* f"{hostname}": the text of a host name inside a formatted message.
format(hostname) == ToString(hostname)

\* str(exc) as used by an f-string: the message of the exception.
str(exc) == exc.message

\* Executor.map: one future per chunk, all submitted before map() returns.
\* args: the chunk; done: items of the chunk processed so far; phase: position
\* inside the unit being run; out: values returned so far; exc: the exception
\* the future holds; order: rank of the future among those of the map in order
\* of completion, 0 until it completes.
submit(chunks) ==
    [i \in 1..Len(chunks) |->
        [args |-> chunks[i], state |-> "pending", done |-> 0,
         phase |-> "start", out |-> << >>, exc |-> NoException, order |-> 0]]

StatesOf(S) == {i \in 1..Len(fs) : fs[i].state \in S}

\* Variant of Settled: a cancelled future does not count as over.
Settled_without_cancelled == {"finished", "failed"}

Settled == {"finished", "failed", "cancelled"}

\* Variant of future_done: the result is read without waiting for the future.
future_done_without_waiting(future) == TRUE

\* Future.result() returns or raises once the future holds a result or an
\* exception; until then the coordinating thread waits.
future_done(future) == future.state \in {"finished", "failed"}

\* result_iterator's finally clause: future.cancel() on every future not yet
\* read; cancel() succeeds only on a future that is still pending.
cancel_rest(futures, from) ==
    [i \in 1..Len(futures) |->
        IF i >= from /\ futures[i].state = "pending"
        THEN [futures[i] EXCEPT !.state = "cancelled"]
        ELSE futures[i]]

----------------------------------------------------------------------------
\* Initial state: the process has parsed its arguments and loaded the inventory
\* (get_fabric_hostvars); the fabric group is the first n hosts of the inventory.

\* The state of a process that has not yet selected its target hosts, with an
\* empty output directory.
process_start ==
    /\ pc = "main"
    /\ executor = "none"
    /\ pool_acquired = 0
    /\ fn = "none"
    /\ fs = << >>
    /\ next_result = 1
    /\ results = << >>
    /\ validated_fabric_hostvars = << >>
    /\ avd_facts = [computed |-> FALSE, avd_switch_facts |-> {}]
    /\ facts_calls = 0
    /\ facts_arg = << >>
    /\ facts_written = FALSE
    /\ validate_calls = [h \in InventoryHosts |-> << >>]
    /\ input_failed = {}
    /\ build_calls = [h \in InventoryHosts |-> << >>]
    /\ build_failed = {}
    /\ sc_failed = {}
    /\ render_failed = {}
    /\ sc_writes = [h \in InventoryHosts |-> 0]
    /\ cfg_writes = [h \in InventoryHosts |-> 0]
    /\ n_processed_hosts = -1
    /\ error = "none"
    /\ exit_status = -1
    /\ files = {}

Init ==
    /\ \E n \in 0..MaxHosts :
           fabric_hostvars = [i \in 1..n |-> << i, Hostvars(i) >>]
    /\ target_hosts \in SUBSET InventoryHosts
    /\ strict \in BOOLEAN
    /\ max_workers \in 1..MaxWorkers
    /\ avd_facts_path \in BOOLEAN
    /\ process_start
    /\ outcomes = [validate_inputs |-> [h \in InventoryHosts |-> "unknown"],
                   get_avd_facts |-> "unknown",
                   get_device_structured_config |-> [h \in InventoryHosts |-> "unknown"],
                   validate_structured_config |-> [h \in InventoryHosts |-> "unknown"],
                   get_device_config |-> [h \in InventoryHosts |-> "unknown"]]
    /\ run = 1
    /\ first_run_files = {}

----------------------------------------------------------------------------
\* The coordinating thread

\* Variant of selector_error: the check that the pattern selects a host of the
\* fabric group is left out.
selector_error_empty_only(hostvars, targets) == Cardinality(targets) = 0

\* main: the two checks that end the process with sys.exit(1) before build().
selector_error(hostvars, targets) ==
    \/ Cardinality(targets) = 0
    \/ KeySet(hostvars) \cap targets = {}

\* main, from the selection of the target hosts to the call of build().
main ==
    /\ pc = "main"
    /\ IF selector_error(fabric_hostvars, target_hosts)
       THEN /\ pc' = "done"
            /\ exit_status' = 1
       ELSE /\ pc' = "build"
            /\ UNCHANGED exit_status
    /\ UNCHANGED << inputs, reruns, world, executor, pool_acquired, fn, fs, next_result, results,
                    pipeline, unit_logs, error >>

\* build: entry of the with-block, ProcessPoolExecutor(max_workers=max_workers).
build ==
    /\ pc = "build"
    /\ executor' = "open"
    /\ pool_acquired' = pool_acquired + 1
    /\ pc' = "validate_all_inputs"
    /\ UNCHANGED << inputs, reruns, world, fn, fs, next_result, results, pipeline, unit_logs,
                    error, exit_status >>

\* Variant of map_chunks: the values are taken in another order than the keys.
map_chunks_values_reversed(all_hostvars, chunksize) ==
    get_chunks(zip(keys(all_hostvars),
                   [i \in 1..Len(all_hostvars) |->
                       values(all_hostvars)[Len(all_hostvars) + 1 - i]]),
               chunksize)

\* The chunks executor.map builds from a dict's keys() and values().
map_chunks(all_hostvars, chunksize) ==
    get_chunks(zip(keys(all_hostvars), values(all_hostvars)), chunksize)

\* validate_all_inputs: executor.map(validate_hostvars, keys, values, chunksize).
validate_all_inputs ==
    /\ pc = "validate_all_inputs"
    /\ fn' = "validate_hostvars"
    /\ fs' = submit(map_chunks(fabric_hostvars, ValidateChunkSize))
    /\ next_result' = 1
    /\ results' = << >>
    /\ pc' = "validate_results"
    /\ UNCHANGED << inputs, reruns, world, executor, pool_acquired, pipeline, unit_logs, error,
                    exit_status >>

\* dict(executor.map(...)) in validate_all_inputs: the result iterator reads the
\* futures in submission order.  When it is exhausted dict() returns; when a
\* future holds an exception the rest is cancelled and the exception is raised.
validate_results ==
    /\ pc = "validate_results"
    /\ IF next_result > Len(fs)
       THEN /\ validated_fabric_hostvars' = dict(results)
            /\ pc' = "generate_avd_facts"
            /\ UNCHANGED << fs, next_result, results, error >>
       ELSE /\ future_done(fs[next_result])
            /\ IF fs[next_result].state = "failed"
               THEN /\ fs' = cancel_rest(fs, next_result)
                    /\ error' = fs[next_result].exc.type
                    /\ pc' = "exit_pool"
                    /\ UNCHANGED << next_result, results >>
               ELSE /\ results' = results \o fs[next_result].out
                    /\ next_result' = next_result + 1
                    /\ UNCHANGED << fs, pc, error >>
            /\ UNCHANGED validated_fabric_hostvars
    /\ UNCHANGED << inputs, reruns, world, executor, pool_acquired, fn, avd_facts, facts_calls,
                    facts_arg, facts_written, n_processed_hosts, unit_logs,
                    exit_status >>

\* pyavd.get_avd_facts: opaque; the facts hold one entry per host of its argument.
get_avd_facts(all_hostvars) ==
    [computed |-> TRUE, avd_switch_facts |-> KeySet(all_hostvars)]

\* A result of a pyavd function agrees with what the function returned before
\* for the same argument: the functions are deterministic.
Agrees(known, outcome) == known \in {"unknown", outcome}

\* open(path, mode="w") and a write: the file is created or replaced.
write_file(fsys, path, content) ==
    {f \in fsys : f.path # path} \cup {[path |-> path, content |-> content]}

\* yaml.dump(data, fd, Dumper=AnsibleDumper, ...): the YAML text of data.
yaml_dump(data) == << "yaml", data >>

\* Variant of generate_avd_facts: an exception of get_avd_facts is caught and
\* logged, and build() goes on to the next stage without facts.
generate_avd_facts_catching_failure ==
    /\ pc = "generate_avd_facts"
    /\ facts_calls' = facts_calls + 1
    /\ facts_arg' = validated_fabric_hostvars
    /\ \E raises \in BOOLEAN :
          /\ Agrees(outcomes.get_avd_facts, IF raises THEN "raised" ELSE "returned")
          /\ outcomes' = [outcomes EXCEPT
                             !.get_avd_facts = IF raises THEN "raised" ELSE "returned"]
          /\ error' = IF raises THEN "FactsError" ELSE error
          /\ avd_facts' = IF raises THEN avd_facts
                          ELSE get_avd_facts(validated_fabric_hostvars)
          /\ facts_written' = (avd_facts_path /\ ~raises)
          /\ files' = IF avd_facts_path /\ ~raises
                      THEN write_file(files, << "avd_facts" >>,
                              yaml_dump(get_avd_facts(validated_fabric_hostvars)))
                      ELSE files
          /\ pc' = "build_and_write_all_device_configs"
    /\ UNCHANGED << inputs, reruns, executor, pool_acquired, fn, fs, next_result, results,
                    validated_fabric_hostvars, n_processed_hosts, unit_logs,
                    exit_status >>

\* generate_avd_facts: one call of get_avd_facts on the coordinating thread, then
\* the optional write of the facts artifact.  get_avd_facts may raise.
generate_avd_facts ==
    /\ pc = "generate_avd_facts"
    /\ facts_calls' = facts_calls + 1
    /\ facts_arg' = validated_fabric_hostvars
    /\ \E raises \in BOOLEAN :
          /\ Agrees(outcomes.get_avd_facts, IF raises THEN "raised" ELSE "returned")
          /\ outcomes' = [outcomes EXCEPT
                             !.get_avd_facts = IF raises THEN "raised" ELSE "returned"]
          /\ IF raises
             THEN /\ error' = "FactsError"
                  /\ pc' = "exit_pool"
                  /\ UNCHANGED << avd_facts, facts_written, files >>
             ELSE /\ avd_facts' = get_avd_facts(validated_fabric_hostvars)
                  /\ facts_written' = avd_facts_path
                  /\ files' = IF avd_facts_path
                              THEN write_file(files, << "avd_facts" >>,
                                      yaml_dump(get_avd_facts(validated_fabric_hostvars)))
                              ELSE files
                  /\ pc' = "build_and_write_all_device_configs"
                  /\ UNCHANGED error
    /\ UNCHANGED << inputs, reruns, executor, pool_acquired, fn, fs, next_result, results,
                    validated_fabric_hostvars, n_processed_hosts, unit_logs,
                    exit_status >>

\* Variant of target_hostvars: the comprehension's condition is left out.
target_hostvars_unfiltered(validated, targets) == validated

\* build: the dict comprehension that keeps the validated hosts named in
\* target_hosts.
target_hostvars(validated, targets) ==
    SelectSeq(validated, LAMBDA item : item[1] \in targets)

\* Variant of build_and_write_all_device_configs: the map is submitted when the
\* validation stage has returned, without waiting for generate_avd_facts.
build_and_write_all_device_configs_before_facts ==
    /\ pc = "generate_avd_facts"
    /\ fn' = "build_and_write_device_config"
    /\ fs' = submit(map_chunks(target_hostvars(validated_fabric_hostvars, target_hosts),
                               BuildChunkSize))
    /\ next_result' = 1
    /\ results' = << >>
    /\ pc' = "build_results"
    /\ UNCHANGED << inputs, reruns, world, executor, pool_acquired, pipeline, unit_logs, error,
                    exit_status >>

\* build_and_write_all_device_configs: executor.map(build_and_write_device_config,
\* keys, values, chunksize) over the target hosts.
build_and_write_all_device_configs ==
    /\ pc = "build_and_write_all_device_configs"
    /\ fn' = "build_and_write_device_config"
    /\ fs' = submit(map_chunks(target_hostvars(validated_fabric_hostvars, target_hosts),
                               BuildChunkSize))
    /\ next_result' = 1
    /\ results' = << >>
    /\ pc' = "build_results"
    /\ UNCHANGED << inputs, reruns, world, executor, pool_acquired, pipeline, unit_logs, error,
                    exit_status >>

\* list(executor.map(...)) in build_and_write_all_device_configs, then len().
build_results ==
    /\ pc = "build_results"
    /\ IF next_result > Len(fs)
       THEN /\ n_processed_hosts' = Len(results)
            /\ pc' = "exit_pool"
            /\ UNCHANGED << fs, next_result, results, error >>
       ELSE /\ future_done(fs[next_result])
            /\ IF fs[next_result].state = "failed"
               THEN /\ fs' = cancel_rest(fs, next_result)
                    /\ error' = fs[next_result].exc.type
                    /\ pc' = "exit_pool"
                    /\ UNCHANGED << next_result, results >>
               ELSE /\ results' = results \o fs[next_result].out
                    /\ next_result' = next_result + 1
                    /\ UNCHANGED << fs, pc, error >>
            /\ UNCHANGED n_processed_hosts
    /\ UNCHANGED << inputs, reruns, world, executor, pool_acquired, fn, validated_fabric_hostvars,
                    avd_facts, facts_calls, facts_arg, facts_written, unit_logs,
                    exit_status >>

\* Variant of exit_code: the exception is swallowed and the process exits 0.
exit_code_always_zero(err) == 0

\* Exit status of the interpreter: 0 when main returns, 1 when an exception
\* leaves main uncaught.
exit_code(err) == IF err = "none" THEN 0 ELSE 1

\* Variant of shutdown_returns: shutdown(wait=False), the with-block is left
\* while work items are still queued or running.
shutdown_returns_without_waiting == TRUE

\* executor.shutdown(wait=True) joins the manager thread, which ends once no
\* work item is pending, queued or running.
shutdown_returns == StatesOf(Settled) = 1..Len(fs)

\* Exit of the with-block: executor.shutdown(wait=True) returns once every
\* future that was not cancelled has run; then build() returns to main, or the
\* exception leaves main and the interpreter exits with status 1.
exit_pool ==
    /\ pc = "exit_pool"
    /\ shutdown_returns
    /\ executor' = "shutdown"
    /\ pc' = "done"
    /\ exit_status' = exit_code(error)
    /\ UNCHANGED << inputs, reruns, world, pool_acquired, fn, fs, next_result, results, pipeline,
                    unit_logs, error >>

----------------------------------------------------------------------------
\* The process pool

\* The executor's manager thread (add_call_item_to_queue): moves the oldest
\* pending work item into the call queue while the queue has room, and marks its
\* future running, after which cancel() fails on it.
add_call_item_to_queue(i) ==
    /\ i \in StatesOf({"pending"})
    /\ \A j \in StatesOf({"pending"}) : i <= j
    /\ Cardinality(StatesOf({"queued"})) < max_workers + EXTRA_QUEUED_CALLS
    /\ fs' = [fs EXCEPT ![i].state = "queued"]
    /\ UNCHANGED << pc, inputs, reruns, world, executor, pool_acquired, fn, next_result, results,
                    pipeline, unit_logs, error, exit_status >>

\* A free worker process takes the oldest work item of the call queue
\* (_process_worker: call_queue.get) and starts _process_chunk on it.
process_worker_get(i) ==
    /\ i \in StatesOf({"queued"})
    /\ \A j \in StatesOf({"queued"}) : i <= j
    /\ Cardinality(StatesOf({"running"})) < max_workers
    /\ fs' = [fs EXCEPT ![i].state = "running"]
    /\ UNCHANGED << pc, inputs, reruns, world, executor, pool_acquired, fn, next_result, results,
                    pipeline, unit_logs, error, exit_status >>

\* Rank of the next future of the map to complete.
next_order == Cardinality(StatesOf({"finished", "failed"})) + 1

\* _process_chunk: the future after fn returned value for the current item of
\* chunk i; the chunk is finished with its last item.
chunk_returned(future, value) ==
    [future EXCEPT !.out = Append(@, value),
                   !.done = @ + 1,
                   !.phase = "start",
                   !.state = IF future.done + 1 = Len(future.args)
                             THEN "finished" ELSE "running",
                   !.order = IF future.done + 1 = Len(future.args)
                             THEN next_order ELSE 0]

\* _process_chunk: fn raised; the items left in the chunk are not run and the
\* exception becomes the future's result.
chunk_raised(future, exception) ==
    [future EXCEPT !.state = "failed", !.exc = exception, !.order = next_order]

\* Variant of validate_hostvars_raises: a failed validation never raises.
validate_hostvars_raises_never(failed, strict_) == FALSE

\* Variant of validate_hostvars_raises: the strict flag is ignored.
validate_hostvars_raises_ignoring_strict(failed, strict_) == failed

\* validate_hostvars: the condition of its raise statement.
validate_hostvars_raises(failed, strict_) == failed /\ strict_

\* Variant of validate_hostvars_returns: the unit returns its variable set
\* under one fixed key instead of its own host name.
validate_hostvars_returns_one_key(hostname, hostvars) == << MaxHosts, hostvars >>

\* validate_hostvars: the value of its return statement.
validate_hostvars_returns(hostname, hostvars) == << hostname, hostvars >>

\* validate_hostvars(hostname, hostvars, strict) run by a worker on the current
\* item of chunk i; failed is the result of pyavd.validate_inputs.
validate_hostvars(i) ==
    /\ fn = "validate_hostvars"
    /\ i \in StatesOf({"running"})
    /\ LET hostname == fs[i].args[fs[i].done + 1][1]
           hostvars == fs[i].args[fs[i].done + 1][2]
       IN  /\ validate_calls' =
                  [validate_calls EXCEPT ![hostname] = Append(@, hostvars)]
           /\ \E failed \in BOOLEAN :
                 /\ Agrees(outcomes.validate_inputs[hostname],
                           IF failed THEN "failed" ELSE "passed")
                 /\ outcomes' = [outcomes EXCEPT !.validate_inputs[hostname] =
                                    IF failed THEN "failed" ELSE "passed"]
                 /\ input_failed' =
                        IF failed THEN input_failed \cup {hostname} ELSE input_failed
                 /\ fs' = [fs EXCEPT ![i] =
                             IF validate_hostvars_raises(failed, strict)
                             THEN chunk_raised(@, Exception("RuntimeError",
                                      << format(hostname), "validate_inputs failed" >>))
                             ELSE chunk_returned(@,
                                      validate_hostvars_returns(hostname, hostvars))]
    /\ UNCHANGED << pc, inputs, reruns, files, executor, pool_acquired, fn, next_result,
                    results, pipeline, build_calls, build_failed, sc_failed,
                    render_failed, sc_writes, cfg_writes, error, exit_status >>

\* pyavd.get_device_structured_config(hostname, inputs, avd_facts): opaque; the
\* structured config is a function of its three arguments.
get_device_structured_config(hostname, hostvars, facts) ==
    [hostname |-> hostname, inputs |-> hostvars, avd_facts |-> facts.avd_switch_facts]

\* The exception pyavd.get_device_structured_config raises when it fails.
structured_config_error == Exception("AristaAvdDuplicateDataError", << "duplicate data" >>)

\* build_and_write_device_config: except Exception as exc:
\*     raise RuntimeError(f"{exc}") from exc
reraise(hostname, exc) == Exception("RuntimeError", str(exc))

\* Templar(...).template(structured_config): the templated structured config.
template(structured_config) == << "templated", structured_config >>

\* pyavd.get_device_config(structured_config): the device configuration text.
get_device_config(structured_config) == << "eos_cli", structured_config >>

\* The templated structured config build_and_write_device_config works on.
template_structured_config(hostname, hostvars) ==
    template(get_device_structured_config(hostname, hostvars, avd_facts))

structured_config_path(hostname) == << "structured_configs", hostname, "yml" >>

intended_config_path(hostname) == << "configs", hostname, "cfg" >>

\* Variant of write_structured_config: the structured config is computed but
\* its write is left to the part of the unit that follows the validation.
write_structured_config_not_before_validation(i) ==
    /\ fn = "build_and_write_device_config"
    /\ i \in StatesOf({"running"})
    /\ fs[i].phase = "start"
    /\ LET hostname == fs[i].args[fs[i].done + 1][1]
           hostvars == fs[i].args[fs[i].done + 1][2]
       IN  /\ build_calls' = [build_calls EXCEPT ![hostname] = Append(@, hostvars)]
           /\ outcomes.get_device_structured_config[hostname] = "unknown"
           /\ outcomes' = [outcomes EXCEPT
                              !.get_device_structured_config[hostname] = "returned"]
           /\ fs' = [fs EXCEPT ![i].phase = "structured_config_written"]
    /\ UNCHANGED << pc, inputs, reruns, files, executor, pool_acquired, fn, next_result,
                    results, pipeline, validate_calls, input_failed, build_failed,
                    sc_failed, render_failed, sc_writes, cfg_writes, error,
                    exit_status >>

\* build_and_write_device_config, first part: get_device_structured_config
\* (any exception is re-raised as RuntimeError), templating, and the write of
\* structured_configs/<hostname>.yml.
write_structured_config(i) ==
    /\ fn = "build_and_write_device_config"
    /\ i \in StatesOf({"running"})
    /\ fs[i].phase = "start"
    /\ LET hostname == fs[i].args[fs[i].done + 1][1]
           hostvars == fs[i].args[fs[i].done + 1][2]
       IN  /\ build_calls' = [build_calls EXCEPT ![hostname] = Append(@, hostvars)]
           /\ \E raises \in BOOLEAN :
                 /\ Agrees(outcomes.get_device_structured_config[hostname],
                           IF raises THEN "raised" ELSE "returned")
                 /\ outcomes' = [outcomes EXCEPT
                                    !.get_device_structured_config[hostname] =
                                        IF raises THEN "raised" ELSE "returned"]
                 /\ IF raises
                    THEN /\ fs' = [fs EXCEPT ![i] =
                                      chunk_raised(@, reraise(hostname,
                                                              structured_config_error))]
                         /\ build_failed' = build_failed \cup {hostname}
                         /\ UNCHANGED << sc_writes, files >>
                    ELSE /\ fs' = [fs EXCEPT ![i].phase = "structured_config_written"]
                         /\ sc_writes' = [sc_writes EXCEPT ![hostname] = @ + 1]
                         /\ files' = write_file(files, structured_config_path(hostname),
                                         yaml_dump(template_structured_config(hostname,
                                                                              hostvars)))
                         /\ UNCHANGED build_failed
    /\ UNCHANGED << pc, inputs, reruns, executor, pool_acquired, fn, next_result, results,
                    pipeline, validate_calls, input_failed, sc_failed, render_failed,
                    cfg_writes, error, exit_status >>

\* Variant of structured_config_raises: a failed validation raises whatever
\* strict is.
structured_config_raises_ignoring_strict(failed, strict_) == failed

\* build_and_write_device_config: the condition of its second raise statement.
structured_config_raises(failed, strict_) == failed /\ strict_

\* build_and_write_device_config, second part: validate_structured_config, the
\* strict check, and the write of configs/<hostname>.cfg from get_device_config.
\* get_device_config or the write may raise; that exception is not caught.
write_device_config(i) ==
    /\ fn = "build_and_write_device_config"
    /\ i \in StatesOf({"running"})
    /\ fs[i].phase = "structured_config_written"
    /\ LET hostname == fs[i].args[fs[i].done + 1][1]
           hostvars == fs[i].args[fs[i].done + 1][2]
       IN  \E failed \in BOOLEAN, raises \in BOOLEAN :
              /\ Agrees(outcomes.validate_structured_config[hostname],
                        IF failed THEN "failed" ELSE "passed")
              /\ sc_failed' = IF failed THEN sc_failed \cup {hostname} ELSE sc_failed
              /\ IF structured_config_raises(failed, strict)
                 THEN /\ ~raises
                      /\ outcomes' = [outcomes EXCEPT
                                         !.validate_structured_config[hostname] = "failed"]
                      /\ fs' = [fs EXCEPT ![i] =
                                   chunk_raised(@, Exception("RuntimeError",
                                       << format(hostname), "validate_structured_config failed" >>))]
                      /\ UNCHANGED << cfg_writes, render_failed, files >>
                 ELSE /\ Agrees(outcomes.get_device_config[hostname],
                                IF raises THEN "raised" ELSE "returned")
                      /\ outcomes' = [outcomes EXCEPT
                                         !.validate_structured_config[hostname] =
                                             IF failed THEN "failed" ELSE "passed",
                                         !.get_device_config[hostname] =
                                             IF raises THEN "raised" ELSE "returned"]
                      /\ IF raises
                         THEN /\ fs' = [fs EXCEPT ![i] =
                                           chunk_raised(@, Exception("OSError",
                                                                     << "write failed" >>))]
                              /\ render_failed' = render_failed \cup {hostname}
                              /\ UNCHANGED << cfg_writes, files >>
                         ELSE /\ fs' = [fs EXCEPT ![i] = chunk_returned(@, hostname)]
                              /\ cfg_writes' = [cfg_writes EXCEPT ![hostname] = @ + 1]
                              /\ files' = write_file(files, intended_config_path(hostname),
                                              get_device_config(
                                                  template_structured_config(hostname,
                                                                             hostvars)))
                              /\ UNCHANGED render_failed
    /\ UNCHANGED << pc, inputs, reruns, executor, pool_acquired, fn, next_result, results,
                    pipeline, validate_calls, input_failed, build_calls, build_failed,
                    sc_writes, error, exit_status >>

----------------------------------------------------------------------------

Next ==
    \/ main
    \/ build
    \/ validate_all_inputs
    \/ validate_results
    \/ generate_avd_facts
    \/ build_and_write_all_device_configs
    \/ build_results
    \/ exit_pool
    \/ \E i \in DOMAIN fs : add_call_item_to_queue(i)
    \/ \E i \in DOMAIN fs : process_worker_get(i)
    \/ \E i \in DOMAIN fs : validate_hostvars(i)
    \/ \E i \in DOMAIN fs : write_structured_config(i)
    \/ \E i \in DOMAIN fs : write_device_config(i)

Spec == Init /\ [][Next]_vars

\* The command is run a second time on the same inventory with the same
\* arguments, after the output directory has been emptied; the pyavd functions
\* return what they returned in the first run.
second_run ==
    /\ pc = "done"
    /\ run = 1
    /\ run' = 2
    /\ first_run_files' = files
    /\ pc' = "main"
    /\ executor' = "none"
    /\ pool_acquired' = 0
    /\ fn' = "none"
    /\ fs' = << >>
    /\ next_result' = 1
    /\ results' = << >>
    /\ validated_fabric_hostvars' = << >>
    /\ avd_facts' = [computed |-> FALSE, avd_switch_facts |-> {}]
    /\ facts_calls' = 0
    /\ facts_arg' = << >>
    /\ facts_written' = FALSE
    /\ validate_calls' = [h \in InventoryHosts |-> << >>]
    /\ input_failed' = {}
    /\ build_calls' = [h \in InventoryHosts |-> << >>]
    /\ build_failed' = {}
    /\ sc_failed' = {}
    /\ render_failed' = {}
    /\ sc_writes' = [h \in InventoryHosts |-> 0]
    /\ cfg_writes' = [h \in InventoryHosts |-> 0]
    /\ n_processed_hosts' = -1
    /\ error' = "none"
    /\ exit_status' = -1
    /\ files' = {}
    /\ UNCHANGED << inputs, outcomes >>

NextTwoRuns == Next \/ second_run

SpecTwoRuns == Init /\ [][NextTwoRuns]_vars

\* The steps of the main thread: main, build and the stages build calls.
coordinator ==
    \/ main
    \/ build
    \/ validate_all_inputs
    \/ validate_results
    \/ generate_avd_facts
    \/ build_and_write_all_device_configs
    \/ build_results
    \/ exit_pool

\* The steps of the executor's manager thread.
executor_manager == \E i \in DOMAIN fs : add_call_item_to_queue(i)

\* The steps of the worker processes.
workers ==
    \E i \in DOMAIN fs :
        \/ process_worker_get(i)
        \/ validate_hostvars(i)
        \/ write_structured_config(i)
        \/ write_device_config(i)

\* The operating system schedules every thread and process that can take a
\* step, and every call of a unit returns or raises: the main thread, the
\* manager thread and the workers each go on while they are able to.
Fairness ==
    /\ WF_vars(coordinator)
    /\ WF_vars(executor_manager)
    /\ WF_vars(workers)

SpecFair == Init /\ [][Next]_vars /\ Fairness

TypeOK ==
    /\ pc \in {"main", "build", "validate_all_inputs", "validate_results",
               "generate_avd_facts", "build_and_write_all_device_configs",
               "build_results", "exit_pool", "done"}
    /\ executor \in {"none", "open", "shutdown"}
    /\ exit_status \in {-1, 0, 1}
    /\ \A i \in DOMAIN fs :
          fs[i].state \in {"pending", "queued", "running"} \cup Settled

----------------------------------------------------------------------------
\* Vocabulary of the properties

FabricHosts == KeySet(fabric_hostvars)

\* Target hosts that have a variable set, i.e. the keys of target_hostvars.
BuiltTargets == target_hosts \cap FabricHosts

NoDeviceArtifact == \A h \in InventoryHosts : sc_writes[h] = 0 /\ cfg_writes[h] = 0

HasArtifacts(h) == sc_writes[h] >= 1 /\ cfg_writes[h] >= 1

\* A file exists at path in the output directories.
HasFile(path) == \E f \in files : f.path = path

----------------------------------------------------------------------------
\* C1: under strict, once the input validation of a fabric device has failed,
\* get_avd_facts has not been and is never called, the facts artifact is not
\* written, no structured-config or rendered-config artifact is written for any
\* device and no build unit runs; the run ends with a non-zero status.  It holds
\* in every interleaving of the validation chunks.
C1_StrictValidationAborts ==
    (strict /\ input_failed # {}) =>
        /\ facts_calls = 0
        /\ ~facts_written
        /\ ~avd_facts.computed
        /\ NoDeviceArtifact
        /\ \A h \in InventoryHosts : build_calls[h] = << >>
        /\ pc \in {"validate_results", "exit_pool", "done"}
        /\ pc = "done" => exit_status = 1

\* A strict run over two validation chunks ended after a failure that was found
\* in the second chunk, the first one having been validated in full.
C1_Witness ==
    /\ pc = "done"
    /\ strict
    /\ Len(fs) = 2
    /\ input_failed # {}
    /\ fs[1].state = "finished"
    /\ fs[2].state = "failed"

\* C2: without strict, a run in which some device failed input validation and
\* neither get_avd_facts nor any structured-config build raised completes with
\* status 0: get_avd_facts received the variable set of every fabric device
\* (the failing ones too) unchanged, and every target device (of those that have
\* a variable set, i.e. belong to the fabric) has its structured-config and
\* rendered-config artifacts.
C2_NonStrictCompletes ==
    (~strict /\ input_failed # {} /\ pc = "done"
        /\ error # "FactsError" /\ build_failed = {} /\ render_failed = {}) =>
        /\ exit_status = 0
        /\ error = "none"
        /\ facts_calls = 1
        /\ facts_arg = fabric_hostvars
        /\ \A h \in input_failed : << h, Hostvars(h) >> \in Range(facts_arg)
        /\ \A h \in BuiltTargets : HasArtifacts(h)
        /\ n_processed_hosts = Cardinality(BuiltTargets)

\* A non-strict run completed although a target device and another device failed
\* input validation.
C2_Witness ==
    /\ pc = "done"
    /\ ~strict
    /\ exit_status = 0
    /\ Cardinality(input_failed) >= 2
    /\ input_failed \cap target_hosts # {}
    /\ \A h \in BuiltTargets : HasArtifacts(h)

\* C3: get_avd_facts is called at most once in a run and exactly once in every
\* run that completes; at the moment of the call every validation future is
\* finished (none pending, queued or running), every fabric device has been
\* validated, and the argument is the complete fabric mapping.
C3_FactsOnceOnCompleteFabric ==
    /\ facts_calls <= 1
    /\ pc = "generate_avd_facts" =>
          /\ facts_calls = 0
          /\ fn = "validate_hostvars"
          /\ \A i \in DOMAIN fs : fs[i].state = "finished"
          /\ \A h \in FabricHosts : Len(validate_calls[h]) = 1
          /\ validated_fabric_hostvars = fabric_hostvars
    /\ facts_calls = 1 =>
          /\ facts_arg = fabric_hostvars
          /\ \A h \in FabricHosts : Len(validate_calls[h]) = 1
    /\ (pc = "done" /\ exit_status = 0) => facts_calls = 1

\* get_avd_facts has been called on a fabric that was validated in two chunks.
C3_Witness ==
    /\ facts_calls = 1
    /\ Len(facts_arg) = MaxHosts
    /\ Len(facts_arg) > ValidateChunkSize
    /\ pc = "build_and_write_all_device_configs"

\* C4: a build unit runs only after generate_avd_facts has returned the facts,
\* which then hold an entry for every fabric device, and the rendered config of
\* a device is written only after that device's structured config was built and
\* written by the same unit.
C4_BuildAfterFactsRenderAfterBuild ==
    /\ (fn = "build_and_write_device_config"
            \/ \E h \in InventoryHosts : build_calls[h] # << >>) =>
          /\ avd_facts.computed
          /\ avd_facts.avd_switch_facts = FabricHosts
          /\ facts_calls = 1
          /\ pc \in {"build_results", "exit_pool", "done"}
    /\ \A h \in InventoryHosts :
          /\ sc_writes[h] <= Len(build_calls[h])
          /\ cfg_writes[h] <= sc_writes[h]
    /\ \A i \in DOMAIN fs :
          fs[i].phase = "structured_config_written" =>
              sc_writes[fs[i].args[fs[i].done + 1][1]] = 1

\* A unit has written a device's structured config and not yet rendered it,
\* while another device is already rendered.
C4_Witness ==
    /\ \E i \in DOMAIN fs :
          /\ fs[i].state = "running"
          /\ fs[i].phase = "structured_config_written"
          /\ cfg_writes[fs[i].args[fs[i].done + 1][1]] = 0
    /\ \E h \in InventoryHosts : cfg_writes[h] = 1

\* C5: when the structured-config build of a target device raised, every other
\* target device for which no build, validation or rendering step failed has
\* its structured-config and rendered-config artifacts when the run has ended,
\* wherever it stands in the batch or in the chunk.
C5_PartialFailureIsolation ==
    (pc = "done" /\ build_failed # {}) =>
        \A h \in BuiltTargets \ (build_failed \cup sc_failed \cup input_failed
                                      \cup render_failed) :
            HasArtifacts(h)

\* C6: under strict, when the structured-config validation of a target device
\* failed (and no build raised), no sibling unit is cancelled or skipped: every
\* other target device is built and rendered when the run has ended, and the
\* status is non-zero.
C6_StrictFailureKeepsSiblings ==
    (strict /\ pc = "done" /\ sc_failed # {} /\ build_failed = {}
        /\ render_failed = {}) =>
        /\ exit_status = 1
        /\ StatesOf({"cancelled"}) = {}
        /\ \A h \in BuiltTargets \ sc_failed : HasArtifacts(h)

\* C7: when the target set is a non-empty subset of the fabric, structured
\* configs are built, and structured-config and rendered-config artifacts
\* written, only for target devices, while the validation map is submitted over
\* the variable sets of all fabric devices and get_avd_facts receives all of
\* them.
C7_TargetSelection ==
    (target_hosts # {} /\ target_hosts \subseteq FabricHosts) =>
        /\ \A h \in InventoryHosts \ target_hosts :
              sc_writes[h] = 0 /\ cfg_writes[h] = 0 /\ build_calls[h] = << >>
        /\ fn = "validate_hostvars" =>
              UNION {Range(fs[i].args) : i \in DOMAIN fs} = Range(fabric_hostvars)
        /\ fn = "build_and_write_device_config" =>
              UNION {Range(fs[i].args) : i \in DOMAIN fs}
                  = {<< h, Hostvars(h) >> : h \in target_hosts}
        /\ facts_calls = 1 =>
              /\ facts_arg = fabric_hostvars
              /\ \A h \in FabricHosts : validate_calls[h] = << Hostvars(h) >>
        /\ (pc = "done" /\ exit_status = 0) =>
              \A h \in target_hosts : HasArtifacts(h)

\* The selector scenario: three fabric devices, the pattern matches the second
\* one only, and the run has completed.
C7_Witness ==
    /\ pc = "done"
    /\ exit_status = 0
    /\ FabricHosts = {1, 2, 3}
    /\ target_hosts = {2}
    /\ HasArtifacts(2)
    /\ Len(facts_arg) = 3

\* C8: when the pattern matches no host, or only hosts outside the fabric group,
\* the process exits with status 1 from main: no ProcessPoolExecutor is created,
\* no validation, facts or build unit runs and no artifact is written.
C8_SelectorErrorBeforeAnyStage ==
    (target_hosts = {} \/ target_hosts \cap FabricHosts = {}) =>
        /\ pc \in {"main", "done"}
        /\ pc = "done" => exit_status = 1
        /\ executor = "none"
        /\ pool_acquired = 0
        /\ fs = << >>
        /\ \A h \in InventoryHosts :
              validate_calls[h] = << >> /\ build_calls[h] = << >>
        /\ facts_calls = 0
        /\ ~facts_written
        /\ NoDeviceArtifact

\* The process has exited on a pattern that matches hosts, all of them outside a
\* non-empty fabric group.
C8_Witness ==
    /\ pc = "done"
    /\ exit_status = 1
    /\ target_hosts # {}
    /\ FabricHosts # {}
    /\ target_hosts \cap FabricHosts = {}

\* C9: a run whose target set holds a device that is not in the fabric ends with
\* an error, never with status 0 after building the intersection only.
C9_AbsentTargetIsError ==
    (pc = "done" /\ ~(target_hosts \subseteq FabricHosts)) => exit_status # 0

\* C10: validate_inputs is never called more than once for a device, is called
\* only for fabric devices and only with the device's own variable set, and has
\* been called exactly once for every fabric device when the validation stage
\* has returned.
C10_ValidatedOnceWithOwnVars ==
    /\ \A h \in InventoryHosts :
          /\ Len(validate_calls[h]) <= 1
          /\ validate_calls[h] # << >> => h \in FabricHosts
          /\ \A k \in DOMAIN validate_calls[h] :
                /\ validate_calls[h][k] = Hostvars(h)
                /\ << h, validate_calls[h][k] >> \in Range(fabric_hostvars)
    /\ (pc = "generate_avd_facts" \/ facts_calls = 1) =>
          \A h \in FabricHosts : Len(validate_calls[h]) = 1

\* The validation stage has returned for a fabric of MaxHosts devices, validated
\* in more than one chunk, one of which failed validation without strict.
C10_Witness ==
    /\ pc = "generate_avd_facts"
    /\ Len(fabric_hostvars) = MaxHosts
    /\ Len(fs) >= 2
    /\ input_failed # {}
    /\ \A h \in FabricHosts : validate_calls[h] = << Hostvars(h) >>

\* C11: a second run with the same fabric variable sets, target set and flags,
\* started from an empty output directory, ends with the same artifact files
\* with the same contents as the first run, whatever the scheduling of the
\* units in either run.
C11_SecondRunSameArtifacts ==
    (run = 2 /\ pc = "done") => files = first_run_files

\* C12: a process that has ended has status 0 exactly when the run was a full
\* success, and a non-zero status when the selector matched no fabric device, a
\* strict input validation failed, get_avd_facts failed, or a device failed
\* (its build raised, its structured-config validation failed under strict, or
\* its rendering or the write of its config raised).
C12_ExitStatus ==
    pc = "done" =>
        /\ exit_status \in {0, 1}
        /\ exit_status = 0 <=>
              /\ target_hosts \cap FabricHosts # {}
              /\ ~(strict /\ input_failed # {})
              /\ outcomes.get_avd_facts = "returned"
              /\ build_failed = {}
              /\ ~(strict /\ sc_failed # {})
              /\ render_failed = {}
        /\ exit_status = 0 => \A h \in BuiltTargets : HasArtifacts(h)

\* A strict run whose inputs were all valid ended with status 1 after the
\* structured-config validation of a device failed.
C12_Witness ==
    /\ pc = "done"
    /\ exit_status = 1
    /\ strict
    /\ input_failed = {}
    /\ sc_failed # {}
    /\ build_failed = {}

\* C13: within a unit the structured-config artifact is written before
\* validate_structured_config runs and whatever its result: a device whose
\* structured config was computed has structured_configs/<device>.yml, with the
\* templated structured config as content, as soon as the computation is
\* over, hence before its validation has a result and also when that result is
\* a failure, with and without strict.
C13_StructuredConfigWrittenBeforeValidation ==
    \A h \in InventoryHosts :
        /\ outcomes.get_device_structured_config[h] = "returned" =>
              /\ HasFile(structured_config_path(h))
              /\ sc_writes[h] = 1
        /\ outcomes.validate_structured_config[h] # "unknown" =>
              HasFile(structured_config_path(h))
        /\ h \in sc_failed =>
              [path |-> structured_config_path(h),
               content |-> yaml_dump(template_structured_config(h, Hostvars(h)))]
                  \in files

\* A strict run has ended after the structured-config validation of a device
\* failed: the device has its structured-config artifact and no rendered config.
C13_Witness ==
    /\ pc = "done"
    /\ strict
    /\ \E h \in sc_failed :
          /\ HasFile(structured_config_path(h))
          /\ ~HasFile(intended_config_path(h))

\* C14: full barrier between building and rendering: a device's rendering
\* (get_device_config and the write of its rendered config) has begun only
\* when the structured-config computation of every device of the run is over,
\* by a return or by a raise.
C14_RenderAfterAllBuilds ==
    \A h \in InventoryHosts :
        outcomes.get_device_config[h] # "unknown" =>
            \A g \in BuiltTargets : build_calls[g] # << >>

\* C15: the worker pool is acquired at most once per run, exactly once as soon
\* as build() has been entered (a run that main ends before build() acquires
\* none), and it is open exactly while build() is inside its with-block; when
\* build() has returned or raised, on whichever path, the pool is shut down and
\* no unit is pending, queued or running: every chunk was cancelled or has ended.
C15_PoolAcquiredOnceAndDrained ==
    /\ pool_acquired \in {0, 1}
    /\ (pool_acquired = 0) <=> (executor = "none")
    /\ (executor = "none") <=>
          (pc \in {"main", "build"} \/ selector_error(fabric_hostvars, target_hosts))
    /\ (executor = "shutdown") <=>
          (pc = "done" /\ ~selector_error(fabric_hostvars, target_hosts))
    /\ executor = "shutdown" =>
          /\ StatesOf({"pending", "queued", "running"}) = {}
          /\ \A i \in 1..Len(fs) : fs[i].state = "cancelled" \/ fs[i].order > 0

\* build() has raised on a per-device build failure read from the first chunk,
\* and a later chunk, already taken by a worker, ended only after that chunk.
C15_Witness ==
    /\ pc = "done"
    /\ executor = "shutdown"
    /\ fn = "build_and_write_device_config"
    /\ error = "RuntimeError"
    /\ Len(fs) = 2
    /\ fs[1].state = "failed"
    /\ fs[2].state = "finished"
    /\ fs[2].order > fs[1].order

\* C16: a failure of get_avd_facts is fatal with and without strict: once it
\* has raised, build() is on its way out with that error, no build or render
\* unit was submitted or has run, no facts, structured-config or rendered-config
\* artifact exists, and the process ends with status 1.
C16_FactsFailureIsFatal ==
    outcomes.get_avd_facts = "raised" =>
        /\ error = "FactsError"
        /\ pc \in {"exit_pool", "done"}
        /\ pc = "done" => exit_status = 1
        /\ fn = "validate_hostvars"
        /\ ~avd_facts.computed
        /\ files = {}
        /\ NoDeviceArtifact
        /\ \A h \in InventoryHosts :
              /\ build_calls[h] = << >>
              /\ outcomes.get_device_structured_config[h] = "unknown"
              /\ outcomes.validate_structured_config[h] = "unknown"
              /\ outcomes.get_device_config[h] = "unknown"

\* A non-strict run, in which the input validation of a device had failed and
\* was only logged, has ended on a failure of get_avd_facts.
C16_Witness ==
    /\ pc = "done"
    /\ ~strict
    /\ input_failed # {}
    /\ facts_calls = 1
    /\ outcomes.get_avd_facts = "raised"
    /\ exit_status = 1

\* C17: an error raised by the computation of a device's structured config
\* leaves the unit as one uniform error, a RuntimeError, whose message carries
\* both the name of the device and the message of the original error.
C17_BuildErrorCarriesDeviceAndMessage ==
    fn = "build_and_write_device_config" =>
        \A i \in StatesOf({"failed"}) :
            fs[i].phase = "start" =>
                LET hostname == fs[i].args[fs[i].done + 1][1]
                IN  /\ fs[i].exc.type = "RuntimeError"
                    /\ Range(str(structured_config_error)) \subseteq Range(str(fs[i].exc))
                    /\ format(hostname) \in Range(str(fs[i].exc))

\* C18: render gating.  A device has a rendered config only if its structured
\* config was written before, in the same run; with strict a device is rendered
\* (get_device_config is called, the rendered config written) only if the
\* validation of its structured config passed; without strict, when the run has
\* ended, every device whose structured config was built has its rendered
\* config, also when that validation failed, unless the rendering itself raised.
C18_RenderGating ==
    \A h \in InventoryHosts :
        /\ (cfg_writes[h] >= 1 \/ HasFile(intended_config_path(h))) =>
              /\ sc_writes[h] = 1
              /\ HasFile(structured_config_path(h))
              /\ h \in BuiltTargets
        /\ (strict /\ (cfg_writes[h] >= 1 \/ outcomes.get_device_config[h] # "unknown")) =>
              /\ outcomes.validate_structured_config[h] = "passed"
              /\ h \notin sc_failed
        /\ (~strict /\ pc = "done" /\ sc_writes[h] = 1 /\ h \notin render_failed) =>
              /\ cfg_writes[h] = 1
              /\ HasFile(intended_config_path(h))

\* A non-strict run has ended and a device whose structured-config validation
\* failed has its rendered config.
C18_Witness ==
    /\ pc = "done"
    /\ ~strict
    /\ \E h \in sc_failed :
          /\ outcomes.validate_structured_config[h] = "failed"
          /\ HasFile(intended_config_path(h))

\* C19: one writer per artifact path.  In every interleaving of the workers a
\* device is the item of at most one unit of the build stage, its structured
\* config and its rendered config are each written at most once in the run, no
\* two chunks are at work on the same device at the same time, and the output
\* directories hold at most one file per path.
C19_OneWriterPerPath ==
    /\ \A h \in InventoryHosts :
          /\ Len(build_calls[h]) <= 1
          /\ sc_writes[h] <= 1
          /\ cfg_writes[h] <= 1
    /\ \A f, g \in files : f.path = g.path => f = g
    /\ fn = "build_and_write_device_config" =>
          /\ \A i, j \in 1..Len(fs) :
                \A k \in 1..Len(fs[i].args), l \in 1..Len(fs[j].args) :
                    fs[i].args[k][1] = fs[j].args[l][1] => (i = j /\ k = l)
          /\ \A i, j \in StatesOf({"running"}) :
                fs[i].args[fs[i].done + 1][1] = fs[j].args[fs[j].done + 1][1] => i = j

\* Two workers are inside build_and_write_device_config at the same time, each
\* for its own device, each having written the structured config and about to
\* write the rendered config.
C19_Witness ==
    /\ fn = "build_and_write_device_config"
    /\ Len(fs) = 2
    /\ fs[1].state = "running"
    /\ fs[2].state = "running"
    /\ fs[1].phase = "structured_config_written"
    /\ fs[2].phase = "structured_config_written"
    /\ sc_writes[fs[1].args[fs[1].done + 1][1]] = 1
    /\ sc_writes[fs[2].args[fs[2].done + 1][1]] = 1

\* C20: the mapping validate_all_inputs returns does not depend on the order
\* in which the validation chunks ended: whenever it has returned, whichever
\* chunk ended first, the mapping has one entry per fabric device, its key set
\* is the key set of the input and each device name maps to the variable set
\* that was submitted for that device.
C20_ValidatedMappingIgnoresCompletionOrder ==
    (fn = "validate_hostvars" /\ pc \in {"generate_avd_facts", "exit_pool", "done"}
       /\ error \in {"none", "FactsError"}) =>
        /\ KeySet(validated_fabric_hostvars) = KeySet(fabric_hostvars)
        /\ Len(validated_fabric_hostvars) = Cardinality(KeySet(fabric_hostvars))
        /\ \A i \in 1..Len(validated_fabric_hostvars) :
              /\ validated_fabric_hostvars[i] \in Range(fabric_hostvars)
              /\ validated_fabric_hostvars[i][2] = Hostvars(validated_fabric_hostvars[i][1])
        /\ \A i, j \in 1..Len(fs) : fs[i].order > 0 /\ (fs[i].order = fs[j].order => i = j)

\* validate_all_inputs has returned the mapping of a fabric validated in two
\* chunks, of which the second ended before the first.
C20_Witness ==
    /\ pc = "generate_avd_facts"
    /\ fn = "validate_hostvars"
    /\ Len(fs) = 2
    /\ fs[2].order < fs[1].order
    /\ Len(validated_fabric_hostvars) = MaxHosts

\* C21: termination without deadlock.  With fair scheduling of the main thread,
\* the manager thread and the workers, every run, which starts in main, ends
\* with exit status 0 or 1 and no unit left pending, queued or running, for
\* every pool size and every fabric; in particular the coordinator leaves each
\* place where it waits for units (the reading of the results of either map
\* and the shutdown of the pool) whatever units are submitted, failed or
\* cancelled at that time.
C21_RunTerminates ==
    (\/ pc \in {"main", "validate_results", "build_results", "exit_pool"}
     \/ StatesOf({"pending", "queued", "running", "failed", "cancelled"}) # {})
        ~> (pc = "done" /\ exit_status \in {0, 1}
              /\ StatesOf({"pending", "queued", "running"}) = {})

\* A run has ended after a chunk failed, the pending chunk after it was
\* cancelled, and the pool was shut down.
C21_Witness ==
    /\ pc = "done"
    /\ executor = "shutdown"
    /\ error # "none"
    /\ StatesOf({"failed"}) # {}
    /\ StatesOf({"cancelled"}) # {}

====
